---- MODULE Spec2Model ----
(***************************************************************************)
(* Model of backend/server.js of VsCode-Termux: the project file APIs      *)
(* (create / list / read / save / delete) over a filesystem, the GitHub    *)
(* backup (create repo + push), and the socket.io terminal (term:run /     *)
(* term:kill and the child process callbacks).                             *)
(*                                                                         *)
(* JavaScript strings that are paths or names are sequences of one-        *)
(* character strings, so that String.startsWith, the regular expression of *)
(* safeName and the segment algebra of path.join are computed character by *)
(* character.  File contents are opaque TLA+ strings.                      *)
(***************************************************************************)
EXTENDS Integers, Sequences, FiniteSets, TLC

\* ------------------------------------------------------------------------
\* Strings
\* ------------------------------------------------------------------------

\* The characters [a-zA-Z0-9\-_.] that safeName keeps.
SafeChars ==
    { "a","b","c","d","e","f","g","h","i","j","k","l","m","n","o","p","q",
      "r","s","t","u","v","w","x","y","z",
      "A","B","C","D","E","F","G","H","I","J","K","L","M","N","O","P","Q",
      "R","S","T","U","V","W","X","Y","Z",
      "0","1","2","3","4","5","6","7","8","9","-","_","." }

\* String(name).replace(/[^a-zA-Z0-9\-_.]/g, '-')
safeName(name) ==
    [i \in 1..Len(name) |-> IF name[i] \in SafeChars THEN name[i] ELSE "-"]

\* String.prototype.startsWith
startsWith(s, prefix) ==
    /\ Len(prefix) <= Len(s)
    /\ SubSeq(s, 1, Len(prefix)) = prefix

Sep == <<"/">>
Dot == <<".">>
DotDot == <<".", ".">>

\* s.split('/'): the segments between separators, empty ones included.
RECURSIVE Split(_)
Split(s) ==
    IF \A i \in 1..Len(s) : s[i] # "/"
    THEN <<s>>
    ELSE LET k == CHOOSE i \in 1..Len(s) :
                    /\ s[i] = "/"
                    /\ \A j \in 1..(i-1) : s[j] # "/"
         IN  <<SubSeq(s, 1, k-1)>> \o Split(SubSeq(s, k+1, Len(s)))

\* segs.join('/')
RECURSIVE JoinSegs(_)
JoinSegs(segs) ==
    IF Len(segs) = 0 THEN <<>>
    ELSE IF Len(segs) = 1 THEN segs[1]
    ELSE segs[1] \o Sep \o JoinSegs(Tail(segs))

\* normalizeString of Node's path module: drops empty and "." segments,
\* lets ".." remove the segment before it, and keeps a leading ".." only
\* when the path is relative (allowAboveRoot).
RECURSIVE normalizeString(_, _, _)
normalizeString(segs, res, allowAboveRoot) ==
    IF Len(segs) = 0 THEN res
    ELSE LET s == Head(segs)
             next == IF s = <<>> \/ s = Dot THEN res
                     ELSE IF s = DotDot
                     THEN IF Len(res) > 0 /\ res[Len(res)] # DotDot
                          THEN SubSeq(res, 1, Len(res) - 1)
                          ELSE IF allowAboveRoot THEN Append(res, DotDot)
                          ELSE res
                     ELSE Append(res, s)
         IN  normalizeString(Tail(segs), next, allowAboveRoot)

\* path.normalize (posix)
normalize(p) ==
    IF Len(p) = 0 THEN Dot
    ELSE LET isAbsolute == p[1] = "/"
             trailingSeparator == p[Len(p)] = "/"
             body == JoinSegs(normalizeString(Split(p), <<>>, ~isAbsolute))
         IN  IF Len(body) = 0
             THEN IF isAbsolute THEN Sep
                  ELSE IF trailingSeparator THEN Dot \o Sep ELSE Dot
             ELSE (IF isAbsolute THEN Sep ELSE <<>>) \o body
                  \o (IF trailingSeparator THEN Sep ELSE <<>>)

\* path.join(a, b): the non-empty arguments joined by '/', then normalized.
join(a, b) ==
    IF Len(a) = 0 /\ Len(b) = 0 THEN Dot
    ELSE IF Len(a) = 0 THEN normalize(b)
    ELSE IF Len(b) = 0 THEN normalize(a)
    ELSE normalize(a \o Sep \o b)

\* path.dirname of an absolute path without a trailing separator.
dirname(p) ==
    LET slashes == {i \in 1..Len(p) : p[i] = "/"}
        last == CHOOSE i \in slashes : \A j \in slashes : j <= i
    IN  IF slashes = {} THEN Dot
        ELSE IF last = 1 THEN Sep
        ELSE SubSeq(p, 1, last - 1)

\* ------------------------------------------------------------------------
\* Directories of the server and requests of the model
\* ------------------------------------------------------------------------

\* process.cwd(): the directory the server is started in.
ROOT == <<"/", "r">>
PROJECTS_DIR == join(ROOT, <<"p","r","o","j","e","c","t","s">>)
UPLOADS_DIR == join(ROOT, <<"u","p","l","o","a","d","s">>)
DefaultProject == <<"d","e","f","a","u","l","t">>

projectPath(project) == join(PROJECTS_DIR, safeName(project))

\* project || 'default'
OrDefault(project) == IF project = <<>> THEN DefaultProject ELSE project

\* Project identifiers sent by clients: none (the default project), "a",
\* and "ab", whose name has the name "a" as a string prefix.
ProjectIds == { <<>>, <<"a">>, <<"a","b">> }

\* Relative paths sent by clients: x, s/y, and two paths with a ".."
\* segment, ../ab/x and ../ab.
FilePaths ==
    { <<"x">>,
      <<"s","/","y">>,
      <<".",".","/","a","b","/","x">>,
      <<".",".","/","a","b">> }

Contents == { "", "c" }

\* content || ''
OrEmpty(content) == IF content = "" THEN "" ELSE content

\* ------------------------------------------------------------------------
\* State
\* ------------------------------------------------------------------------

VARIABLES
    fs,        \* the filesystem: existing path -> [kind, content]
    last,      \* the HTTP request handled last, with its response, and
               \* whether it repeats the request before it, which succeeded
    served,    \* how many HTTP requests have been handled
    saved,     \* one (project root, resolved path) pair that was saved to,
               \* with the content of the latest successful save to it
    runs,      \* the child processes spawned by term:run, in spawn order
    channel,   \* per socket: the events emitted on it, in order
    serverUp,  \* FALSE once an uncaught exception has ended the process
    lastKill,  \* the term:kill handled in the last step, if one was, with
               \* the processes it signalled
    lastRun,   \* the term:run handled in the last step, if one was: its
               \* command, its cwd, options.cwd and what spawn did
    git,       \* the git repositories of the project directories
    hub,       \* the repositories that exist at GitHub
    backup     \* the /api/backup/github request in progress or handled
               \* last: where the handler is, what it did, its response

vars ==
    <<fs, last, served, saved, runs, channel, serverUp, lastKill, lastRun,
      git, hub, backup>>
fileVars == <<fs, last, served, saved>>
termVars == <<runs, channel, serverUp, lastKill, lastRun>>
backupVars == <<git, hub, backup>>

Dir == [kind |-> "dir", content |-> ""]
File(c) == [kind |-> "file", content |-> c]

\* ------------------------------------------------------------------------
\* fs module of Node, on a filesystem f
\* ------------------------------------------------------------------------

existsSync(f, p) == p \in DOMAIN f

isDirectory(f, p) == p \in DOMAIN f /\ f[p].kind = "dir"

\* p and every directory above it.
RECURSIVE Ancestors(_)
Ancestors(p) == IF p = Sep THEN {Sep} ELSE {p} \cup Ancestors(dirname(p))

\* fs.mkdirSync(p, { recursive: true }): throws when p or a path above it
\* is a regular file, else creates the missing directories.
mkdirOk(f, p) == \A q \in Ancestors(p) : q \in DOMAIN f => f[q].kind = "dir"
mkdirSync(f, p) == f @@ [q \in Ancestors(p) \ DOMAIN f |-> Dir]

\* fs.writeFileSync(p, c, 'utf8'): throws when p is a directory or its
\* parent is no directory, else creates or overwrites the file.
writeOk(f, p) == isDirectory(f, dirname(p)) /\ ~isDirectory(f, p)
writeFileSync(f, p, c) == (p :> File(c)) @@ f

\* fs.unlinkSync(p): throws on a directory, else removes the file.
unlinkOk(f, p) == p \in DOMAIN f /\ f[p].kind = "file"
unlinkSync(f, p) == [q \in DOMAIN f \ {p} |-> f[q]]

\* fs.readFileSync(p, 'utf8'): throws on a directory.
readOk(f, p) == p \in DOMAIN f /\ f[p].kind = "file"

\* fs.readdirSync(d): the names in directory d.
readdirSync(f, d) ==
    {SubSeq(q, Len(d) + 2, Len(q)) : q \in {e \in DOMAIN f : e # d /\ dirname(e) = d}}

\* ensureProjectFolder(project), as the filesystem it leaves.
ensureFolder(f, p) == IF ~existsSync(f, p) THEN mkdirSync(f, p) ELSE f
ensureProjectFolder(f, project) == ensureFolder(f, projectPath(project))

\* walk(d, base) of /api/files/list.  The result is the set of the entries
\* of the returned array, whose order is that of readdirSync.
RECURSIVE walk(_, _, _)
walkItem(f, full, rel) == IF isDirectory(f, full) THEN walk(f, full, rel) ELSE {rel}
walk(f, d, base) ==
    UNION { walkItem(f, join(d, it), join(base, it)) : it \in readdirSync(f, d) }

\* ------------------------------------------------------------------------
\* Handlers: the filesystem each leaves and the response it sends
\* ------------------------------------------------------------------------

NoFiles == {}
Response(f, status, message) ==
    [fs |-> f, status |-> status, message |-> message,
     content |-> "", files |-> NoFiles]

\* The sandbox check of /api/files/save: full.startsWith(dir)
guardSave(full, dir) == startsWith(full, dir)

\* POST /api/files/save, lines 185-189: the try block, on the filesystem f
\* that mkdirSync left
saveWrite(f, full, content) ==
    IF ~writeOk(f, full) THEN Response(f, "500", "write")
    ELSE Response(writeFileSync(f, full, OrEmpty(content)), "200", "saved")

\* POST /api/files/save, lines 181-189, on the filesystem f that
\* ensureProjectFolder left
saveAt(f, dir, full, content) ==
    IF ~guardSave(full, dir) THEN Response(f, "400", "invalid path")
    ELSE IF ~mkdirOk(f, dirname(full)) THEN Response(f, "500", "mkdir")
    ELSE saveWrite(mkdirSync(f, dirname(full)), full, content)

saveIn(f, dir, filepath, content) == saveAt(f, dir, join(dir, filepath), content)

\* POST /api/files/save
save(project, filepath, content) ==
    IF filepath = <<>> THEN Response(fs, "400", "filepath required")
    ELSE saveIn(ensureProjectFolder(fs, OrDefault(project)),
                projectPath(OrDefault(project)), filepath, content)

\* POST /api/files/read
readAt(full) ==
    IF ~existsSync(fs, full) THEN Response(fs, "404", "not found")
    ELSE IF ~readOk(fs, full) THEN Response(fs, "500", "read")
    ELSE [Response(fs, "200", "") EXCEPT !.content = fs[full].content]

read(project, filepath) ==
    IF filepath = <<>> THEN Response(fs, "400", "filepath required")
    ELSE readAt(join(projectPath(OrDefault(project)), filepath))

\* POST /api/files/delete without its existsSync check: unlinkSync throws
\* on a missing file and the catch block answers 500.
deleteAtUnchecked(full) ==
    IF ~unlinkOk(fs, full) THEN Response(fs, "500", "unlink")
    ELSE Response(unlinkSync(fs, full), "200", "deleted")

\* POST /api/files/delete
deleteAt(full) ==
    IF ~existsSync(fs, full) THEN Response(fs, "404", "not found")
    ELSE IF ~unlinkOk(fs, full) THEN Response(fs, "500", "unlink")
    ELSE Response(unlinkSync(fs, full), "200", "deleted")

delete(project, filepath) ==
    IF filepath = <<>> THEN Response(fs, "400", "filepath required")
    ELSE deleteAt(join(projectPath(OrDefault(project)), filepath))

\* POST /api/files/list.  readdirSync on a root that is a regular file
\* throws outside any try block: the request gets no response.
listAt(dir) ==
    IF ~existsSync(fs, dir) THEN Response(fs, "200", "")
    ELSE IF ~isDirectory(fs, dir) THEN Response(fs, "unhandled", "readdir")
    ELSE [Response(fs, "200", "") EXCEPT !.files = walk(fs, dir, <<>>)]

list(project) == listAt(projectPath(OrDefault(project)))

\* ------------------------------------------------------------------------
\* Actions of the file APIs
\* ------------------------------------------------------------------------

\* The pair a request addresses: its project root and its resolved path.
KeyIn(dir, filepath) == <<dir, join(dir, filepath)>>
Key(project, filepath) == KeyIn(projectPath(OrDefault(project)), filepath)

NoSave == [key |-> <<>>, content |-> ""]

\* How many requests the model follows.
MaxRequests == 3

\* The request is answered with res, and the filesystem is as res.fs.
Handled(op, project, filepath, res) ==
    /\ served < MaxRequests
    /\ served' = served + 1
    /\ fs' = res.fs
    /\ last' = [op |-> op, project |-> project, filepath |-> filepath,
                status |-> res.status, message |-> res.message,
                content |-> res.content, files |-> res.files,
                again |-> /\ last.op = op
                          /\ last.status = "200"
                          /\ Key(last.project, last.filepath) = Key(project, filepath)]

Saved(res, k, content) ==
    saved' = IF res.status = "200" /\ saved.key \in {<<>>, k}
             THEN [key |-> k, content |-> OrEmpty(content)]
             ELSE saved

Deleted(res, k) ==
    saved' = IF res.status = "200" /\ saved.key = k THEN NoSave ELSE saved

SaveFile(project, filepath, content) ==
    /\ Handled("save", project, filepath, save(project, filepath, content))
    /\ Saved(last', Key(project, filepath), content)
    /\ UNCHANGED termVars /\ UNCHANGED backupVars

ReadFile(project, filepath) ==
    /\ Handled("read", project, filepath, read(project, filepath))
    /\ UNCHANGED saved
    /\ UNCHANGED termVars /\ UNCHANGED backupVars

DeleteFile(project, filepath) ==
    /\ Handled("delete", project, filepath, delete(project, filepath))
    /\ Deleted(last', Key(project, filepath))
    /\ UNCHANGED termVars /\ UNCHANGED backupVars

ListFiles(project) ==
    /\ Handled("list", project, <<>>, list(project))
    /\ UNCHANGED saved
    /\ UNCHANGED termVars /\ UNCHANGED backupVars

\* The directories made at startup (server.js lines 41-42).
InitFs == [p \in Ancestors(PROJECTS_DIR) \cup {UPLOADS_DIR} |-> Dir]

NoRequest ==
    [op |-> "none", project |-> <<>>, filepath |-> <<>>, status |-> "",
     message |-> "", content |-> "", files |-> NoFiles, again |-> FALSE]

InitFiles ==
    /\ fs = InitFs
    /\ last = NoRequest
    /\ served = 0
    /\ saved = NoSave

NextFiles ==
    \/ \E p \in ProjectIds, fp \in FilePaths, c \in Contents : SaveFile(p, fp, c)
    \/ \E p \in ProjectIds, fp \in FilePaths : ReadFile(p, fp)
    \/ \E p \in ProjectIds, fp \in FilePaths : DeleteFile(p, fp)
    \/ \E p \in ProjectIds : ListFiles(p)

\* ------------------------------------------------------------------------
\* Terminal via socket.io
\* ------------------------------------------------------------------------

\* The value of a field that is not there.
Undefined == "undefined"
\* The exit code of a process that a signal ended.
Null == "null"

\* Connected sockets.
Sockets == {"s1"}

\* How many term:run requests the model follows, and how many events it
\* follows on a socket.
MaxRuns == 2
MaxEvents == 4

\* Process identifiers of the operating system, and the pid of a child
\* that did not start.
Pids == 1..MaxRuns
NoPid == 0
ExitCodes == {"0"}
StreamKinds == {"stdout", "stderr"}

\* Commands sent by clients: a shell command, an interpreter on a script,
\* a file that is no script, or none.
Cmds == {"sh", "python s.py", "./x.bin", Undefined}
\* Working directories sent by clients: none, "a", ".", ".." and "a/b".
Cwds == { <<>>, <<"a">>, <<".">>, <<".", ".">>, <<"a", "/", "b">> }

\* No term:kill was handled in the last step.
NoKill == [target |-> 0, terminal |-> FALSE, signalled |-> {}]

\* No term:run was handled in the last step.
NoRun == [cmd |-> Undefined, cwd |-> <<>>, dir |-> <<>>, outcome |-> "none"]

Event(name, data, run) == [name |-> name, data |-> data, run |-> run]

Emit(s, es) ==
    /\ Len(channel[s]) + Len(es) <= MaxEvents
    /\ channel' = [channel EXCEPT ![s] = @ \o es]

\* A handler that emits term:exit on the child's 'exit' as well as on its
\* 'close', and one that emits it on 'exit' alone.
terminalListenersBoth == {"exit", "close"}
terminalListenersExit == {"exit"}

\* The child events on which the handler emits term:exit.
terminalListeners == {"close"}

\* options.cwd of term:run: path.resolve(projectPath(cwd) || PROJECTS_DIR)
\* when cwd is given
cwdOf(cwd) == IF cwd = <<>> THEN <<>> ELSE normalize(projectPath(cwd))

\* What spawn(cmd, { shell: true, cwd }) does: it throws on a command that
\* is no string and on a working directory that is a regular file
\* (ENOTDIR); on a working directory that does not exist (ENOENT) it
\* returns a child without pid that emits 'error' on the next tick; else
\* it starts /bin/sh.
spawnOutcome(cmd, dir) ==
    IF cmd = Undefined THEN "throws"
    ELSE IF dir = <<>> THEN "started"
    ELSE IF ~existsSync(fs, dir) THEN "error"
    ELSE IF ~isDirectory(fs, dir) THEN "throws"
    ELSE "started"

\* How many term:run requests were handled: each left a child or a
\* term:error.
Asked ==
    LET errors(s) == {i \in DOMAIN channel[s] : channel[s][i].name = "term:error"}
    IN  Len(runs) + Cardinality(UNION {{<<s, i>> : i \in errors(s)} : s \in Sockets})

\* The handler of term:run ran on { cmd, cwd }.
Ran(cmd, cwd) ==
    lastRun' = [cmd |-> cmd, cwd |-> cwd, dir |-> cwdOf(cwd),
                outcome |-> spawnOutcome(cmd, cwdOf(cwd))]

LivePids == {runs[r].pid : r \in {i \in DOMAIN runs : runs[i].st = "running"}}

\* The pid of a new process: the least that no live process has.
newPid == CHOOSE p \in Pids \ LivePids : \A q \in Pids \ LivePids : p <= q

Child(s, pid, st) ==
    [socket |-> s, pid |-> pid, st |-> st, signalled |-> FALSE,
     code |-> Undefined]

\* socket.on('term:run'), a command that starts: the child runs with a pid
\* that no live process has, term:spawned is emitted, and the listeners
\* for its output, its close and the socket's term:kill are registered.
TermRunStarted(s, cmd, cwd) ==
    /\ serverUp
    /\ Asked < MaxRuns
    /\ spawnOutcome(cmd, cwdOf(cwd)) = "started"
    /\ runs' = Append(runs, Child(s, newPid, "running"))
    /\ Emit(s, <<Event("term:spawned", [pid |-> newPid], Len(runs) + 1)>>)
    /\ UNCHANGED serverUp /\ lastKill' = NoKill /\ Ran(cmd, cwd)
    /\ UNCHANGED fileVars /\ UNCHANGED backupVars

\* socket.on('term:run'), spawn throws: the catch block emits term:error.
TermRunThrows(s, cmd, cwd) ==
    /\ serverUp
    /\ Asked < MaxRuns
    /\ spawnOutcome(cmd, cwdOf(cwd)) = "throws"
    /\ Emit(s, <<Event("term:error", [message |-> "spawn"], 0)>>)
    /\ UNCHANGED <<runs, serverUp>> /\ lastKill' = NoKill /\ Ran(cmd, cwd)
    /\ UNCHANGED fileVars /\ UNCHANGED backupVars

\* socket.on('term:run'), the working directory does not exist:
\* term:spawned is emitted with no pid and the listeners are registered;
\* the child then emits 'error', for which there is no listener, and the
\* uncaught exception ends the server process.
TermRunError(s, cmd, cwd) ==
    /\ serverUp
    /\ Asked < MaxRuns
    /\ spawnOutcome(cmd, cwdOf(cwd)) = "error"
    /\ runs' = Append(runs, Child(s, NoPid, "failed"))
    /\ Emit(s, <<Event("term:spawned", [pid |-> NoPid], Len(runs) + 1)>>)
    /\ serverUp' = FALSE
    /\ lastKill' = NoKill /\ Ran(cmd, cwd)
    /\ UNCHANGED fileVars /\ UNCHANGED backupVars

\* A chunk arrives on child.stdout or child.stderr: the streams deliver
\* until they close, which is before the child's 'close'.
streamOpen(st) == st \in {"running", "exited"}

ChildData(r, kind) ==
    /\ serverUp
    /\ streamOpen(runs[r].st)
    /\ Emit(runs[r].socket,
            <<Event("term:data", [type |-> kind, text |-> "out"], r)>>)
    /\ UNCHANGED <<runs, serverUp>> /\ lastKill' = NoKill /\ lastRun' = NoRun
    /\ UNCHANGED fileVars /\ UNCHANGED backupVars

\* The events the handler emits on child event ev of run r.
onChild(ev, r, code) ==
    IF ev \in terminalListeners
    THEN <<Event("term:exit", [code |-> code], r)>>
    ELSE << >>

\* The process ends, with an exit code or, if it was signalled, by the
\* signal (code null); child emits 'exit'.
ChildExit(r, code) ==
    /\ serverUp
    /\ runs[r].st = "running"
    /\ code = Null => runs[r].signalled
    /\ runs' = [runs EXCEPT ![r].st = "exited", ![r].code = code]
    /\ Emit(runs[r].socket, onChild("exit", r, code))
    /\ UNCHANGED serverUp /\ lastKill' = NoKill /\ lastRun' = NoRun
    /\ UNCHANGED fileVars /\ UNCHANGED backupVars

\* The process has ended and its streams have closed: child emits 'close'.
ChildClose(r) ==
    /\ serverUp
    /\ runs[r].st = "exited"
    /\ runs' = [runs EXCEPT ![r].st = "closed"]
    /\ Emit(runs[r].socket, onChild("close", r, runs[r].code))
    /\ UNCHANGED serverUp /\ lastKill' = NoKill /\ lastRun' = NoRun
    /\ UNCHANGED fileVars /\ UNCHANGED backupVars

\* The children that a term:kill on socket s reaches: each term:run on the
\* socket registered one more listener, for its own child.
killListeners(s) == {r \in DOMAIN runs : runs[r].socket = s}

\* child.kill('SIGTERM') signals the process while it lives.
killSignals(s) == {r \in killListeners(s) : runs[r].st = "running"}

\* socket.on('term:kill'): the client means run target; the event carries
\* no argument.
TermKill(s, target) ==
    /\ serverUp
    /\ target \in killListeners(s)
    /\ runs' = [r \in DOMAIN runs |->
                    IF r \in killSignals(s)
                    THEN [runs[r] EXCEPT !.signalled = TRUE]
                    ELSE runs[r]]
    /\ lastKill' = [target |-> target,
                    terminal |-> runs[target].st = "closed",
                    signalled |-> killSignals(s)]
    /\ UNCHANGED <<channel, serverUp>> /\ lastRun' = NoRun
    /\ UNCHANGED fileVars /\ UNCHANGED backupVars

InitTerm ==
    /\ runs = << >>
    /\ channel = [s \in Sockets |-> << >>]
    /\ serverUp = TRUE
    /\ lastKill = NoKill
    /\ lastRun = NoRun

NextTerm ==
    \/ \E s \in Sockets, cmd \in Cmds, cwd \in Cwds : TermRunStarted(s, cmd, cwd)
    \/ \E s \in Sockets, cmd \in Cmds, cwd \in Cwds : TermRunThrows(s, cmd, cwd)
    \/ \E s \in Sockets, cmd \in Cmds, cwd \in Cwds : TermRunError(s, cmd, cwd)
    \/ \E r \in DOMAIN runs, kind \in StreamKinds : ChildData(r, kind)
    \/ \E r \in DOMAIN runs, code \in ExitCodes \cup {Null} : ChildExit(r, code)
    \/ \E r \in DOMAIN runs : ChildClose(r)
    \/ \E s \in Sockets, target \in DOMAIN runs : TermKill(s, target)

\* ------------------------------------------------------------------------
\* Create project
\* ------------------------------------------------------------------------

\* POST /api/project/create.  mkdirSync below a regular file throws in the
\* async handler, outside any try block: the request gets no response.
createProject(project) ==
    IF project = <<>> THEN Response(fs, "400", "project required")
    ELSE IF ~existsSync(fs, projectPath(project)) /\ ~mkdirOk(fs, projectPath(project))
    THEN Response(fs, "unhandled", "mkdir")
    ELSE Response(ensureProjectFolder(fs, project), "200", "")

CreateProject(project) ==
    /\ Handled("create", project, <<>>, createProject(project))
    /\ UNCHANGED saved
    /\ UNCHANGED termVars /\ UNCHANGED backupVars

\* ------------------------------------------------------------------------
\* GitHub backup (create repo + push)
\* ------------------------------------------------------------------------

\* Tokens sent by clients: none, the tokens of two GitHub accounts, and a
\* token that GitHub does not accept.
NoToken == ""
Tokens == {NoToken, "t1", "t2", "bad"}
validToken(token) == token \in {"t1", "t2"}
ownerOf(token) == IF token = "t1" THEN "u1" ELSE IF token = "t2" THEN "u2" ELSE ""

\* Projects that clients ask to back up: none, and "a".
BackupProjects == { <<>>, <<"a">> }

\* How many backup requests the model follows.
MaxBackups == 2

\* j.clone_url and j.html_url of the repository that the request creates:
\* the account of the token, and payload.name
NoUrl == [owner |-> "", name |-> <<>>]
cloneUrl(token, project) == [owner |-> ownerOf(token), name |-> safeName(project)]

\* authUrl: clone_url.replace('https://', `https://${token}@`)
NoRemote == [token |-> NoToken, url |-> NoUrl]
authUrl(token, url) == [token |-> token, url |-> url]

\* POST https://api.github.com/user/repos answers resp.ok unless the token
\* is not accepted or the account has a repository of that name.
createOk(h, token, project) ==
    validToken(token) /\ cloneUrl(token, project) \notin h

\* The git repository of a directory: whether git init ran in it, whether
\* the tree is staged, whether HEAD has the backup commit, and the URL of
\* its remote "origin".
NoRepo == [init |-> FALSE, staged |-> FALSE, head |-> FALSE, origin |-> NoRemote]
NoRepos == [d \in {} |-> NoRepo]
repoOf(g, dir) == IF dir \in DOMAIN g THEN g[dir] ELSE NoRepo
setRepo(g, dir, repo) == (dir :> repo) @@ g

\* No backup was requested yet.
NoBackup ==
    [pc |-> "idle", n |-> 0, project |-> <<>>, token |-> NoToken,
     url |-> NoUrl, steps |-> << >>, failed |-> {}, before |-> NoRepos,
     target |-> NoRemote, status |-> "", message |-> "", repo |-> NoUrl]

\* The handler has attempted step name, and the step succeeded or failed.
Attempt(b, name, ok) ==
    [b EXCEPT !.steps = Append(@, name),
              !.failed = IF ok THEN @ ELSE @ \cup {name}]

\* The handler goes on to its next await, or answers the request.
Goto(b, pc) == [b EXCEPT !.pc = pc]
Respond(b, status, message, repo) ==
    [b EXCEPT !.pc = "done", !.status = status, !.message = message,
              !.repo = repo]

\* Lines 249-251: the checks before the try block.
backupStart(b, project, token) ==
    IF token = NoToken \/ project = <<>>
    THEN Respond(b, "400", "project & token required", NoUrl)
    ELSE IF ~existsSync(fs, projectPath(project))
    THEN Respond(b, "404", "project not found", NoUrl)
    ELSE Goto(b, "create")

\* A step whose rejection reaches the catch block of line 279.
fatal(b, ok, next) ==
    IF ok THEN Goto(b, next) ELSE Respond(b, "500", "e.message", NoUrl)

\* A handler that goes on to the local steps whatever GitHub answered.
afterCreateLenient(b, ok) == Goto(b, "init")

\* Line 262: if (!resp.ok) return res.status(500)...
afterCreate(b, ok) ==
    IF ok THEN Goto(b, "init")
    ELSE Respond(b, "500", "github create repo failed", NoUrl)

\* A handler whose commit has no catch: its rejection reaches line 279.
afterCommitFatal(b, ok) == fatal(b, ok, "remote")

\* Line 268: await git.commit(...).catch(()=>{})
afterCommit(b, ok) == Goto(b, "remote")

\* A handler whose push has no catch: its rejection reaches line 279.
afterPushFatal(b, ok) ==
    IF ok THEN Respond(b, "200", "backup completed", b.url)
    ELSE Respond(b, "500", "e.message", NoUrl)

\* Lines 273-278: the rejection of the push is logged, and the request is
\* answered { ok: true, message: 'backup completed', repo: j.html_url }.
afterPush(b, ok) == Respond(b, "200", "backup completed", b.url)

\* POST /api/backup/github arrives; its handler runs to the fetch.  The
\* model follows one backup at a time.
BackupRequest(project, token) ==
    /\ backup.pc \in {"idle", "done"}
    /\ backup.n < MaxBackups
    /\ backup' = backupStart([NoBackup EXCEPT !.n = backup.n + 1,
                                              !.project = project,
                                              !.token = token,
                                              !.before = git],
                             project, token)
    /\ UNCHANGED <<git, hub>>
    /\ UNCHANGED fileVars /\ UNCHANGED termVars

\* Lines 256-262.  The fetch rejects when the network fails (net is
\* FALSE), which reaches the catch block; else GitHub answers, and has
\* created the repository when it answers resp.ok.
RemoteCreate(net) ==
    /\ backup.pc = "create"
    /\ LET created == net /\ createOk(hub, backup.token, backup.project)
           url == cloneUrl(backup.token, backup.project)
           b == Attempt(backup, "remote-create", created)
       IN  /\ hub' = IF created THEN hub \cup {url} ELSE hub
           /\ backup' = IF ~net THEN Respond(b, "500", "e.message", NoUrl)
                        ELSE afterCreate([b EXCEPT !.url = IF created THEN url ELSE NoUrl],
                                         created)
    /\ UNCHANGED git
    /\ UNCHANGED fileVars /\ UNCHANGED termVars

\* Line 266: await git.init()
GitInit(ok) ==
    /\ backup.pc = "init"
    /\ LET dir == projectPath(backup.project)
       IN  git' = IF ok THEN setRepo(git, dir, [repoOf(git, dir) EXCEPT !.init = TRUE])
                  ELSE git
    /\ backup' = fatal(Attempt(backup, "local-init", ok), ok, "add")
    /\ UNCHANGED hub
    /\ UNCHANGED fileVars /\ UNCHANGED termVars

\* Line 267: await git.add('.')
GitAdd(ok) ==
    /\ backup.pc = "add"
    /\ LET dir == projectPath(backup.project)
       IN  git' = IF ok THEN setRepo(git, dir, [repoOf(git, dir) EXCEPT !.staged = TRUE])
                  ELSE git
    /\ backup' = fatal(Attempt(backup, "add", ok), ok, "commit")
    /\ UNCHANGED hub
    /\ UNCHANGED fileVars /\ UNCHANGED termVars

\* Line 268: await git.commit('Backup from VsCode-Termux').catch(()=>{})
GitCommit(ok) ==
    /\ backup.pc = "commit"
    /\ LET dir == projectPath(backup.project)
       IN  git' = IF ok
                  THEN setRepo(git, dir, [repoOf(git, dir) EXCEPT !.staged = FALSE,
                                                                  !.head = TRUE])
                  ELSE git
    /\ backup' = afterCommit(Attempt(backup, "commit", ok), ok)
    /\ UNCHANGED hub
    /\ UNCHANGED fileVars /\ UNCHANGED termVars

\* Lines 269-272: await git.addRemote('origin', authUrl).catch(()=>{}).
\* git remote add fails when the repository has a remote "origin".
AddRemote(ok) ==
    /\ backup.pc = "remote"
    /\ LET dir == projectPath(backup.project)
           added == ok /\ repoOf(git, dir).origin = NoRemote
       IN  /\ git' = IF added
                     THEN setRepo(git, dir,
                                  [repoOf(git, dir) EXCEPT
                                      !.origin = authUrl(backup.token, backup.url)])
                     ELSE git
           /\ backup' = Goto(Attempt(backup, "remote-add", added), "push")
    /\ UNCHANGED hub
    /\ UNCHANGED fileVars /\ UNCHANGED termVars

\* Lines 273-278: await git.push(['-u', 'origin', 'HEAD']).catch(...), and
\* the response.  The push goes to the URL of the remote "origin", and
\* fails when there is none, when there is no commit, or when GitHub does
\* not let the token of the URL write to the repository.
GitPush(ok) ==
    /\ backup.pc = "push"
    /\ LET repo == repoOf(git, projectPath(backup.project))
           pushed == /\ ok
                     /\ repo.head
                     /\ repo.origin # NoRemote
                     /\ repo.origin.url \in hub
                     /\ ownerOf(repo.origin.token) = repo.origin.url.owner
       IN  backup' = afterPush([Attempt(backup, "push", pushed) EXCEPT
                                    !.target = repo.origin],
                               pushed)
    /\ UNCHANGED <<git, hub>>
    /\ UNCHANGED fileVars /\ UNCHANGED termVars

InitBackup ==
    /\ git = NoRepos
    /\ hub = {}
    /\ backup = NoBackup

NextBackup ==
    \/ \E p \in BackupProjects : CreateProject(p)
    \/ \E p \in BackupProjects, t \in Tokens : BackupRequest(p, t)
    \/ \E net \in BOOLEAN : RemoteCreate(net)
    \/ \E ok \in BOOLEAN : GitInit(ok)
    \/ \E ok \in BOOLEAN : GitAdd(ok)
    \/ \E ok \in BOOLEAN : GitCommit(ok)
    \/ \E ok \in BOOLEAN : AddRemote(ok)
    \/ \E ok \in BOOLEAN : GitPush(ok)

\* ------------------------------------------------------------------------
\* Specifications
\* ------------------------------------------------------------------------

Init == InitFiles /\ InitTerm /\ InitBackup

\* The file APIs, with no terminal activity.
SpecFiles == Init /\ [][NextFiles]_vars

\* The terminal, on the filesystem as the server starts with.
SpecTerm == Init /\ [][NextTerm]_vars

\* The backup, on projects that clients create.
SpecBackup == Init /\ [][NextBackup]_vars

\* ------------------------------------------------------------------------
\* The sandbox of the design: a resolved path lies within a project root
\* when it is the root or begins with the root followed by a separator.
\* ------------------------------------------------------------------------

InsideRoot(full, dir) == full = dir \/ startsWith(full, dir \o Sep)

RootOf(r) == projectPath(OrDefault(r.project))
FullOf(r) == join(RootOf(r), r.filepath)

HasDotDot(filepath) == \E i \in 1..Len(Split(filepath)) : Split(filepath)[i] = DotDot

\* The request names a path with ".." segments that resolves outside its
\* project root.
Escapes(r) ==
    /\ r.filepath # <<>>
    /\ HasDotDot(r.filepath)
    /\ ~InsideRoot(FullOf(r), RootOf(r))

PathEscape(r) == r.status = "400" /\ r.message = "invalid path"
Ok(r) == r.status = "200"
NotFound(r) == r.status = "404"

\* The step handles a request.
Handles == served' # served

\* The root-relative paths of the regular files under dir.
FilesUnder(f, dir) ==
    { SubSeq(p, Len(dir) + 2, Len(p)) :
        p \in {q \in DOMAIN f : f[q].kind = "file" /\ startsWith(q, dir \o Sep)} }

\* ------------------------------------------------------------------------
\* Claims about the file APIs
\* ------------------------------------------------------------------------

\* C1: a save, read or delete whose path has ".." segments and resolves
\* outside the project root is rejected with PathEscape, so that it
\* creates, reads and deletes nothing.
C1_EscapeRejected ==
    (last.op \in {"save", "read", "delete"} /\ Escapes(last)) => PathEscape(last)

\* C2: a save succeeds only if the resolved path is the project root or
\* begins with the project root followed by a separator.
C2_SaveOnlyInsideRoot ==
    (last.op = "save" /\ Ok(last)) => InsideRoot(FullOf(last), RootOf(last))

\* C3: a save that the sandbox check rejects leaves the filesystem as it
\* was: no file and no directory is created.
C3_RejectedSaveNoEffect ==
    [][(Handles /\ last'.op = "save" /\ PathEscape(last')) => fs' = fs]_vars

\* C4: reading a (project, path) pair returns the content of the latest
\* successful save to that pair, whatever was saved to or deleted from
\* other pairs since.
C4_ReadReturnsLastSave ==
    (last.op = "read" /\ saved.key = Key(last.project, last.filepath))
        => (Ok(last) /\ last.content = saved.content)

\* C5: a delete of a path at which nothing exists answers NotFound and
\* leaves the filesystem as it was; a delete that follows a successful
\* delete of the same file answers NotFound.
C5_DeleteMissingNotFound ==
    [][ /\ (Handles /\ last'.op = "delete" /\ last'.filepath # <<>>
                /\ ~existsSync(fs, FullOf(last')))
            => (NotFound(last') /\ fs' = fs)
        /\ (Handles /\ last'.op = "delete" /\ last.op = "delete" /\ Ok(last)
                /\ FullOf(last') = FullOf(last))
            => (NotFound(last') /\ fs' = fs) ]_vars

\* A file was deleted, and the next request deleted it again.
C5_Witness == last.op = "delete" /\ last.again /\ NotFound(last)

\* C6: a list answers with exactly the root-relative paths of the regular
\* files under the project root, empty when the root does not exist, and
\* creates nothing.
C6_ListReturnsFiles ==
    [][(Handles /\ last'.op = "list")
        => /\ Ok(last')
           /\ last'.files = FilesUnder(fs, RootOf(last'))
           /\ fs' = fs ]_vars

\* ------------------------------------------------------------------------
\* Claims about the terminal
\* ------------------------------------------------------------------------

\* The events that the process of run r produced, in the order emitted.
IsOf(r, e) == e.run = r
RunEvents(r) ==
    LET Mine(e) == IsOf(r, e) IN SelectSeq(channel[runs[r].socket], Mine)

IsTerminal(e) == e.name = "term:exit"
TerminalEvents(r) == SelectSeq(RunEvents(r), IsTerminal)

\* C7, as claimed: a run that was signalled while it ran and has closed
\* has exactly one terminal event, and that event says it was killed (the
\* code of term:exit is null).
C7_KilledEvent ==
    \A r \in DOMAIN runs :
        (runs[r].signalled /\ runs[r].st = "closed")
            => /\ Len(TerminalEvents(r)) = 1
               /\ TerminalEvents(r)[1].data.code = Null

\* C7, amended: no run has a second terminal event; a run has its one
\* terminal event exactly when it has closed, and the event carries the
\* code its process ended with: null when the signal ended it, the exit
\* code when the process handled the signal and exited.
C7_OneTerminalEvent ==
    \A r \in DOMAIN runs :
        /\ Len(TerminalEvents(r)) <= 1
        /\ runs[r].st = "closed" <=> Len(TerminalEvents(r)) = 1
        /\ runs[r].st = "closed" => TerminalEvents(r)[1].data.code = runs[r].code

\* A run was killed while it ran, and has closed.
C7_Witness ==
    \E r \in DOMAIN runs :
        /\ runs[r].signalled
        /\ runs[r].st = "closed"
        /\ Len(TerminalEvents(r)) = 1

\* C8: runs that live at once have distinct identifiers, and every output
\* chunk and terminal event on a socket carries the identifier of the run
\* that produced it.
C8_EventsCarryRunId ==
    /\ \A r1, r2 \in DOMAIN runs :
        (r1 # r2 /\ runs[r1].st = "running" /\ runs[r2].st = "running")
            => runs[r1].pid # runs[r2].pid
    /\ \A s \in Sockets : \A i \in DOMAIN channel[s] :
        channel[s][i].name \in {"term:data", "term:exit"}
            => /\ "pid" \in DOMAIN channel[s][i].data
               /\ channel[s][i].data.pid = runs[channel[s][i].run].pid

\* C9: the events of a run are one term:spawned, then output chunks, then
\* at most one terminal event, after which there is none.
C9_RunEventShape ==
    \A r \in DOMAIN runs :
        /\ Len(RunEvents(r)) >= 1
        /\ RunEvents(r)[1].name = "term:spawned"
        /\ \A i \in 2..Len(RunEvents(r)) :
                RunEvents(r)[i].name \in {"term:data", "term:exit"}
        /\ \A i \in 1..(Len(RunEvents(r)) - 1) : ~IsTerminal(RunEvents(r)[i])

\* A run was spawned, wrote output after its process ended, and closed.
C9_Witness ==
    \E r \in DOMAIN runs :
        /\ Len(RunEvents(r)) = 3
        /\ RunEvents(r)[2].name = "term:data"
        /\ IsTerminal(RunEvents(r)[3])

\* C10: a term:kill meant for a run that has had its terminal event
\* signals no process.
C10_KillTerminalNoop ==
    (lastKill.target # 0 /\ lastKill.terminal) => lastKill.signalled = {}

\* ------------------------------------------------------------------------
\* Claims about the backup
\* ------------------------------------------------------------------------

\* The steps the handler attempted, and those that succeeded.
Attempted(b) == {b.steps[i] : i \in DOMAIN b.steps}
Succeeded(b, name) == name \in Attempted(b) /\ name \notin b.failed
Answered(b) == b.pc = "done"

\* The response reports success and carries the URL of the repository that
\* the remote-create step made.
ReportsSuccess(b) == b.status = "200" /\ b.repo = b.url /\ b.repo # NoUrl

C12_CreateFailureIsFatal ==
    "remote-create" \in backup.failed
        => /\ Answered(backup)
           /\ backup.status = "500"
           /\ backup.steps = <<"remote-create">>
           /\ git = backup.before

\* GitHub refused the token of a backup of a project that has a git
\* repository from an earlier backup.
C12_Witness ==
    /\ Answered(backup)
    /\ backup.token = "bad"
    /\ "remote-create" \in backup.failed
    /\ backup.before # NoRepos

\* The steps of a backup, in their order.
StepOrder ==
    <<"remote-create", "local-init", "add", "commit", "remote-add", "push">>

\* C13: the steps attempted by a backup are an initial part of
\* remote-create, local-init, add, commit, remote-add, push, so that each
\* ran at most once and in this order; a backup in which commit or
\* remote-add failed goes on, and has attempted every step when it is
\* answered.
C13_FixedOrder ==
    /\ Len(backup.steps) <= Len(StepOrder)
    /\ backup.steps = SubSeq(StepOrder, 1, Len(backup.steps))
    /\ (Answered(backup) /\ backup.failed \cap {"commit", "remote-add"} # {})
        => backup.steps = StepOrder

\* A backup in which both commit and remote-add failed was answered.
C13_Witness ==
    /\ Answered(backup)
    /\ {"commit", "remote-add"} \subseteq backup.failed
    /\ backup.steps = StepOrder

\* C14: once the remote-add step of a backup has run, the remote "origin"
\* of the project's repository, if it has one, is the URL that the
\* remote-create step of this backup returned, with the token of this
\* backup embedded; and the push of this backup goes to that repository.
C14_OriginIsNewRemote ==
    LET origin == repoOf(git, projectPath(backup.project)).origin
    IN  /\ ("remote-add" \in Attempted(backup) /\ origin # NoRemote)
            => origin = authUrl(backup.token, backup.url)
        /\ ("push" \in Attempted(backup) /\ backup.target # NoRemote)
            => backup.target.url = backup.url

\* ------------------------------------------------------------------------
\* Claims about run requests
\* ------------------------------------------------------------------------

\* The commands that the interpreter mapping of the design yields: the
\* Python interpreter on a .py file, the JavaScript interpreter on a .js
\* file.
MappedCmds == {"python s.py", "node a.js"}

\* A term:run was handled in the last step.
RunHandled == lastRun.outcome # "none"

\* The last event on some socket is a failure event.
FailureReported ==
    \E s \in Sockets :
        /\ channel[s] # << >>
        /\ channel[s][Len(channel[s])].name = "term:error"

\* C15: a run request for a command outside the interpreter mapping is
\* answered with a failure and spawns no process, so that every process
\* spawned runs a command of the mapping.
C15_OnlyMappedCommands ==
    /\ lastRun.outcome = "started" => lastRun.cmd \in MappedCmds
    /\ (RunHandled /\ lastRun.cmd \notin MappedCmds) => FailureReported

\* C16: a term:kill meant for one run signals no process of another run.
C16_KillOnlyAddressed ==
    lastKill.target # 0 => lastKill.signalled \subseteq {lastKill.target}

\* C17: a run request whose process does not start is answered with a
\* failure event, and the server goes on serving.
C17_SpawnFailureReported ==
    lastRun.outcome \in {"throws", "error"} => (FailureReported /\ serverUp)

\* d is a directory directly inside the projects directory.
StrictChild(d) == d # PROJECTS_DIR /\ dirname(d) = PROJECTS_DIR

\* C18: the project root derived from the identifier that a run request
\* gives as cwd, and the working directory of the process it spawns, is a
\* directory directly inside the projects directory.
C18_CwdStrictChild ==
    /\ (RunHandled /\ lastRun.cwd # <<>>)
        => StrictChild(projectPath(lastRun.cwd))
    /\ (lastRun.outcome = "started" /\ lastRun.cwd # <<>>)
        => StrictChild(lastRun.dir)

====
